---- MODULE Spec2Model ----
(***************************************************************************)
(* The ingestion pipeline of FYP-Data: content_ingestion.py and            *)
(* question_ingestion.py walk data/processed/<topic>/<subtopic>/, resolve  *)
(* the topic and subtopic ids in the store (upsert, then select), build    *)
(* rows from chunks_by_level.yaml / questions_by_level.yaml and upsert     *)
(* them through safe_upsert, which the retry decorator repeats.            *)
(***************************************************************************)
EXTENDS Integers, Sequences, FiniteSets, TLC

(***************************************************************************)
(* Parsed YAML / JSON values.  Every value is a record of the same shape:  *)
(* tag is "map", "seq", "str" or "null"; a map keeps its (key, value)      *)
(* pairs in insertion order, as a Python dict does, with distinct keys.    *)
(***************************************************************************)
Str(s) == [tag |-> "str", s |-> s, items |-> <<>>]

Null == [tag |-> "null", s |-> "", items |-> <<>>]

KV(k, v) == [k |-> k, v |-> v]

Map(pairs) == [tag |-> "map", s |-> "", items |-> pairs]

List(elems) == [tag |-> "seq", s |-> "", items |-> elems]

IsDict(v) == v.tag = "map"

\* key in d, for a dict d
HasKey(d, key) == \E i \in 1..Len(d.items) : d.items[i].k = key

\* d[key], for a dict d that has the key
Item(d, key) == d.items[CHOOSE i \in 1..Len(d.items) : d.items[i].k = key].v

\* d.get(key, default), for a dict d
Get(d, key, default) == IF HasKey(d, key) THEN Item(d, key) ELSE default

\* a test that takes every value for true
TruthyAlways(v) == TRUE

\* Python truthiness: None, "" and empty containers are falsy
Truthy(v) ==
  CASE v.tag = "null" -> FALSE
    [] v.tag = "str" -> v.s # ""
    [] OTHER -> Len(v.items) > 0

\* `key in v` for any parsed value: a dict tests its keys, a list its elements,
\* a str tests for a substring (no string of the model contains a difficulty
\* name), None raises TypeError.
InRaises(v) == v.tag = "null"

InValue(v, key) ==
  CASE v.tag = "map" -> HasKey(v, key)
    [] v.tag = "seq" -> \E i \in 1..Len(v.items) : v.items[i] = Str(key)
    [] OTHER -> FALSE

\* `for q in v`: a list yields its elements, a dict its keys, a str its
\* characters (each a str; one stands for all of them), None raises TypeError.
IterRaises(v) == v.tag = "null"

IterItems(v) ==
  CASE v.tag = "seq" -> v.items
    [] v.tag = "map" -> [i \in 1..Len(v.items) |-> Str(v.items[i].k)]
    [] v.tag = "str" -> IF v.s = "" THEN <<>> ELSE <<Str(v.s)>>
    [] OTHER -> <<>>

(***************************************************************************)
(* hash_content: json.dumps(data, sort_keys=True, separators=(",", ":")),  *)
(* then SHA-256.  The serialization is a sequence of tokens; SHA-256 is    *)
(* taken to be collision-free, so the digest is a wrapper of its input.    *)
(***************************************************************************)
\* every mapping key of the model, in the order sorted() puts them
KeyOrder == <<"a", "advanced", "answer", "b", "beginner", "by_level",
              "intermediate", "meta", "question", "questions", "summary",
              "title", "type">>

RECURSIVE DumpsPairs(_, _, _), DumpsElems(_, _), Dumps(_)

RECURSIVE DumpsPairsInOrder(_, _, _)

\* json.dumps without sort_keys: the pairs of dict d from the r-th on, in the
\* order of insertion
DumpsPairsInOrder(d, r, first) ==
  IF r > Len(d.items) THEN <<>>
  ELSE (IF r = 1 THEN <<>> ELSE <<",">>)
       \o <<"\"", d.items[r].k, "\"", ":">> \o Dumps(d.items[r].v)
       \o DumpsPairsInOrder(d, r + 1, FALSE)

\* the pairs of dict d whose key is KeyOrder[r] or later, comma-separated
DumpsPairs(d, r, first) ==
  IF r > Len(KeyOrder) THEN <<>>
  ELSE IF HasKey(d, KeyOrder[r])
       THEN (IF first THEN <<>> ELSE <<",">>)
            \o <<"\"", KeyOrder[r], "\"", ":">> \o Dumps(Item(d, KeyOrder[r]))
            \o DumpsPairs(d, r + 1, FALSE)
       ELSE DumpsPairs(d, r + 1, first)

DumpsElems(elems, i) ==
  IF i > Len(elems) THEN <<>>
  ELSE (IF i = 1 THEN <<>> ELSE <<",">>) \o Dumps(elems[i]) \o DumpsElems(elems, i + 1)

Dumps(v) ==
  CASE v.tag = "null" -> <<"null">>
    [] v.tag = "str" -> <<"\"", v.s, "\"">>
    [] v.tag = "seq" -> <<"[">> \o DumpsElems(v.items, 1) \o <<"]">>
    [] OTHER -> <<"{">> \o DumpsPairs(v, 1, TRUE) \o <<"}">>

Sha256(bytes) == [alg |-> "sha256", of |-> bytes]

hash_content(data) == Sha256(Dumps(data))

(***************************************************************************)
(* Program constants and the two difficulty tables.                        *)
(***************************************************************************)
BATCH_SIZE == 10

MAX_RETRIES == 3

Flows == {"content", "questions"}

\* DIFFICULTY_MAP.items(): the source levels in the order the dict lists them
YamlLevels == <<"beginner", "intermediate", "advanced">>

\* one table for both flows: the table of the content flow
DifficultyMapOfContent(flow, yaml_level) ==
  CASE yaml_level = "beginner" -> "basic"
    [] yaml_level = "intermediate" -> "core"
    [] OTHER -> "advanced"

DIFFICULTY_MAP(flow, yaml_level) ==
  CASE yaml_level = "beginner" -> "basic"
    [] yaml_level = "intermediate" -> "core"
    [] OTHER -> IF flow = "content" THEN "advanced" ELSE "mastery"

TableOf(flow) == IF flow = "content" THEN "content" ELSE "questions"

(***************************************************************************)
(* The store: four tables, each a set of rows.  An id is assigned when a   *)
(* row is inserted; no row is ever deleted.                                *)
(***************************************************************************)
EmptyDb == [topics |-> {}, subtopics |-> {}, content |-> {}, questions |-> {}]

MaxOf(S) == IF S = {} THEN 0 ELSE CHOOSE m \in S : \A x \in S : x <= m

\* a plain insert, with no on_conflict: a second row for a name already stored
UpsertTopicInsert(d, topic_name) ==
  [d EXCEPT !.topics = @ \cup
     {[topic_id |-> MaxOf({r.topic_id : r \in d.topics}) + 1,
       topic_name |-> topic_name]}]

\* topics.upsert({"topic_name": n}, on_conflict=["topic_name"]): the row with
\* that name keeps its id; without one, a row is inserted under a fresh id
UpsertTopic(d, topic_name) ==
  IF \E r \in d.topics : r.topic_name = topic_name
  THEN d
  ELSE [d EXCEPT !.topics = @ \cup
         {[topic_id |-> MaxOf({r.topic_id : r \in d.topics}) + 1,
           topic_name |-> topic_name]}]

\* topics.select("topic_id").eq("topic_name", n): the ids that match;
\* .single() is an error unless exactly one row matches
SelectTopic(d, topic_name) ==
  {r.topic_id : r \in {x \in d.topics : x.topic_name = topic_name}}

UpsertSubtopic(d, topic_id, subtopic_name) ==
  IF \E r \in d.subtopics : r.topic_id = topic_id /\ r.subtopic_name = subtopic_name
  THEN d
  ELSE [d EXCEPT !.subtopics = @ \cup
         {[subtopic_id |-> MaxOf({r.subtopic_id : r \in d.subtopics}) + 1,
           topic_id |-> topic_id,
           subtopic_name |-> subtopic_name]}]

SelectSubtopic(d, topic_id, subtopic_name) ==
  {r.subtopic_id : r \in {x \in d.subtopics :
       x.topic_id = topic_id /\ x.subtopic_name = subtopic_name}}

\* a questions upsert with on_conflict="subtopic_id,question_hash"
ConflictKeyPerSubtopic(flow, row) ==
  IF flow = "content" THEN <<row.subtopic_id, row.difficulty>>
  ELSE <<row.subtopic_id, row.question_hash>>

\* the on_conflict key of a row of each flow's table
ConflictKey(flow, row) ==
  IF flow = "content" THEN <<row.subtopic_id, row.difficulty>>
  ELSE <<row.question_hash>>

\* One upsert statement cannot touch a stored row twice: a request holding two
\* rows with the same on_conflict key is rejected by the store as a whole.
StoreAccepts(flow, rows) ==
  \A i, j \in 1..Len(rows) :
     ConflictKey(flow, rows[i]) = ConflictKey(flow, rows[j]) => i = j

\* an upsert that ignores duplicates: a stored row with the key of a sent row
\* is kept as it is
UpsertTableIgnore(flow, table, rows) ==
  LET sent == {rows[i] : i \in 1..Len(rows)}
      keys == {ConflictKey(flow, r) : r \in table}
  IN table \cup {r \in sent : ConflictKey(flow, r) \notin keys}

\* table.upsert(rows, on_conflict=key): a stored row with the key of a sent
\* row is replaced by it, the other sent rows are inserted
UpsertTable(flow, table, rows) ==
  LET sent == {rows[i] : i \in 1..Len(rows)}
      keys == {ConflictKey(flow, r) : r \in sent}
  IN {r \in table : ConflictKey(flow, r) \notin keys} \cup sent

\* a store that keeps, in the table written, the rows of the last request only
UpsertRowsAlone(d, flow, rows) ==
  IF flow = "content"
  THEN [d EXCEPT !.content = {rows[i] : i \in 1..Len(rows)}]
  ELSE [d EXCEPT !.questions = {rows[i] : i \in 1..Len(rows)}]

UpsertRows(d, flow, rows) ==
  IF flow = "content"
  THEN [d EXCEPT !.content = UpsertTable(flow, @, rows)]
  ELSE [d EXCEPT !.questions = UpsertTable(flow, @, rows)]

\* a retry loop that re-raises one failed attempt too late
RetryOffByOne(tries) ==
  [tries |-> tries - 1, raise |-> tries - 1 < 0]

\* @retry(tries=MAX_RETRIES, delay=2): after a failed attempt one try is used
\* up; the exception is re-raised when none is left, else the call is repeated
RetryAfterFailure(tries) ==
  [tries |-> tries - 1, raise |-> tries - 1 = 0]

(***************************************************************************)
(* Row assembly.                                                           *)
(***************************************************************************)
ContentRow(subtopic_id, db_level, level_block) ==
  [subtopic_id |-> subtopic_id,
   difficulty |-> db_level,
   title |-> Get(level_block, "title", Null),
   summary |-> Get(level_block, "summary", Null),
   content_json |-> level_block,
   content_hash |-> hash_content(level_block),
   is_published |-> TRUE]

\* a row that carries an id other than the one get_or_create_subtopic returned
QuestionRowOtherId(subtopic_id, db_level, q) ==
  [subtopic_id |-> subtopic_id + 1,
   difficulty |-> db_level,
   question_type |-> Get(q, "type", Null),
   content_json |-> q,
   question_hash |-> hash_content(q),
   is_published |-> TRUE]

QuestionRow(subtopic_id, db_level, q) ==
  [subtopic_id |-> subtopic_id,
   difficulty |-> db_level,
   question_type |-> Get(q, "type", Null),
   content_json |-> q,
   question_hash |-> hash_content(q),
   is_published |-> TRUE]

\* a buffer that is flushed one row too late
BufferFullLate(batch) == Len(batch) > BATCH_SIZE

\* if len(batch_rows) >= BATCH_SIZE
BufferFull(batch) == Len(batch) >= BATCH_SIZE

\* a flush that is never made
NeedsFlushNever(batch) == FALSE

\* a flush that is made with an empty buffer too
NeedsFlushAlways(batch) == TRUE

\* if batch_rows
NeedsFlush(batch) == batch # <<>>

LogRec(level, msg, ref) == [level |-> level, msg |-> msg, ref |-> ref]

\* What the row loop of a subtopic reports when it stops: "flush" (the batch is
\* full and is sent now), "end" (the loop is over) or "crash" (an exception no
\* handler of ingest() catches), with the loop position to resume from.
Stop(kind, li, qi, batch, logs, err) ==
  [kind |-> kind, li |-> li, qi |-> qi, batch |-> batch, logs |-> logs, err |-> err]

RECURSIVE ContentLevels(_, _, _, _)

\* content_ingestion.ingest, the loop over DIFFICULTY_MAP: one row per level
\* present; level_block.get raises AttributeError on a block that is no dict
ContentLevels(data, subtopic_id, li, batch) ==
  IF li > Len(YamlLevels) THEN Stop("end", li, 0, batch, {}, "")
  ELSE IF ~HasKey(data, YamlLevels[li])
       THEN ContentLevels(data, subtopic_id, li + 1, batch)
       ELSE LET level_block == Item(data, YamlLevels[li]) IN
            IF ~IsDict(level_block)
            THEN Stop("crash", li, 0, batch, {}, "AttributeError")
            ELSE ContentLevels(data, subtopic_id, li + 1,
                   Append(batch, ContentRow(subtopic_id,
                            DIFFICULTY_MAP("content", YamlLevels[li]), level_block)))

RECURSIVE QuestionLevels(_, _, _, _, _, _, _)

\* question_ingestion.ingest, the loops over DIFFICULTY_MAP and over the
\* questions of a level, from level li and item qi (0: the level is not yet
\* entered) up to the next safe_upsert call, the end or an uncaught exception
QuestionLevels(levels, subtopic_id, ref, li, qi, batch, logs) ==
  IF li > Len(YamlLevels) THEN Stop("end", li, 0, batch, logs, "")
  ELSE IF InRaises(levels) THEN Stop("crash", li, qi, batch, logs, "TypeError")
  ELSE IF ~InValue(levels, YamlLevels[li])
       THEN QuestionLevels(levels, subtopic_id, ref, li + 1, 0, batch, logs)
  ELSE IF ~IsDict(levels) THEN Stop("crash", li, qi, batch, logs, "TypeError")
  ELSE IF ~IsDict(Item(levels, YamlLevels[li]))
       THEN Stop("crash", li, qi, batch, logs, "AttributeError")
  ELSE LET questions == Get(Item(levels, YamlLevels[li]), "questions", List(<<>>)) IN
       IF IterRaises(questions) THEN Stop("crash", li, qi, batch, logs, "TypeError")
       ELSE IF qi = 0
            THEN QuestionLevels(levels, subtopic_id, ref, li, 1, batch, logs)
       ELSE IF qi > Len(IterItems(questions))
            THEN QuestionLevels(levels, subtopic_id, ref, li + 1, 0, batch, logs)
       ELSE LET q == IterItems(questions)[qi] IN
            IF ~IsDict(q) THEN Stop("crash", li, qi, batch, logs, "AttributeError")
            ELSE IF ~Truthy(Get(q, "type", Null))
                 THEN QuestionLevels(levels, subtopic_id, ref, li, qi + 1, batch,
                        logs \cup {LogRec("warning", "Skipping question with missing type", ref)})
                 ELSE LET grown == Append(batch, QuestionRow(subtopic_id,
                                     DIFFICULTY_MAP("questions", YamlLevels[li]), q)) IN
                      IF BufferFull(grown)
                      THEN Stop("flush", li, qi + 1, grown, logs, "")
                      ELSE QuestionLevels(levels, subtopic_id, ref, li, qi + 1, grown, logs)

(***************************************************************************)
(* The corpus: data/processed/<topic>/<subtopic>/<file>.  A file is absent,*)
(* or unparseable (yaml.safe_load raises YAMLError), or parses to a value. *)
(* A subtopic directory carries the name of the file the running flow      *)
(* reads.                                                                  *)
(***************************************************************************)
File(exists, parses, data) == [exists |-> exists, parses |-> parses, data |-> data]

Missing == File(FALSE, FALSE, Null)

Unparseable == File(TRUE, FALSE, Null)

Parsed(data) == File(TRUE, TRUE, data)

BlockA == Map(<<KV("title", Str("T1")), KV("summary", Str("S1"))>>)

\* BlockA with its keys in the other order
BlockB == Map(<<KV("summary", Str("S1")), KV("title", Str("T1"))>>)

BlockC == Map(<<KV("title", Str("T2"))>>)

\* the chunks_by_level.yaml files of the model, by name
ContentFileNames == {"missing", "unparseable", "scalar", "three", "one", "strblock"}

\* a file that parses to a mapping and yields no row
NoRows == "norows"

ContentFile(name) ==
  CASE name = "missing" -> Missing
    [] name = "unparseable" -> Unparseable
    [] name = "scalar" -> Parsed(Str("text"))
    [] name = "three" -> Parsed(Map(<<KV("beginner", BlockA), KV("intermediate", BlockB),
                                      KV("advanced", BlockC)>>))
    [] name = "one" -> Parsed(Map(<<KV("meta", Str("x")), KV("beginner", BlockC)>>))
    [] name = NoRows -> Parsed(Map(<<KV("meta", Str("x"))>>))
    [] OTHER -> Parsed(Map(<<KV("beginner", Str("title: T1")),
                             KV("intermediate", BlockA)>>))

Q1 == Map(<<KV("type", Str("mcq")), KV("question", Str("q1")), KV("answer", Str("a"))>>)

\* Q1 with its keys in another order
Q1p == Map(<<KV("answer", Str("a")), KV("question", Str("q1")), KV("type", Str("mcq"))>>)

Q2 == Map(<<KV("type", Str("short")), KV("question", Str("q2"))>>)

Q3 == Map(<<KV("type", Str("mcq")), KV("question", Str("q4"))>>)

QNoType == Map(<<KV("question", Str("q3"))>>)

\* an item whose type is present and empty
QEmptyType == Map(<<KV("type", Str("")), KV("question", Str("q5"))>>)

\* pairwise different items with a type
QN(n) == Map(<<KV("type", Str("mcq")), KV("question", Str("n" \o ToString(n)))>>)

Questions(qs) == Map(<<KV("questions", List(qs))>>)

ByLevel(levels) == Map(<<KV("by_level", levels)>>)

\* the questions_by_level.yaml files of the model, by name
QuestionFileNames ==
  {"missing", "unparseable", "nowrapper", "two", "one", "twice", "strblock"}

QuestionFile(name) ==
  CASE name = "missing" -> Missing
    [] name = "unparseable" -> Unparseable
    [] name = "nowrapper" -> Parsed(Map(<<KV("beginner", Questions(<<Q1>>))>>))
    [] name = "two" -> Parsed(ByLevel(Map(<<KV("beginner", Questions(<<Q1, QNoType>>)),
                                            KV("advanced", Questions(<<Q2>>))>>)))
    [] name = "one" -> Parsed(ByLevel(Map(<<KV("intermediate", Questions(<<Q1p>>))>>)))
    [] name = "twice" -> Parsed(ByLevel(Map(<<KV("beginner", Questions(<<Q1>>)),
                                              KV("advanced", Questions(<<Q1p>>))>>)))
    [] name = "solo" -> Parsed(ByLevel(Map(<<KV("advanced", Questions(<<Q3>>))>>)))
    [] name = NoRows ->
         Parsed(ByLevel(Map(<<KV("beginner", Questions(<<QNoType, QEmptyType>>)),
                              KV("intermediate", Map(<<KV("meta", Str("x"))>>)),
                              KV("advanced", Questions(<<>>))>>)))
    [] name = "full" ->
         Parsed(ByLevel(Map(<<
           KV("beginner", Questions(<<QN(1), QN(2), QN(3), QNoType, QN(4), QEmptyType,
                                      QN(5), QN(6), QN(7), QN(8), QN(9), QN(10)>>)),
           KV("advanced", Questions([i \in 1..BATCH_SIZE |-> QN(BATCH_SIZE + i)]))>>)))
    [] OTHER -> Parsed(ByLevel(Map(<<KV("beginner", Str("questions: text"))>>)))

FileNames(flow) == IF flow = "content" THEN ContentFileNames ELSE QuestionFileNames

FileOf(flow, name) == IF flow = "content" THEN ContentFile(name) ELSE QuestionFile(name)

SubDir(name, file) == [name |-> name, file |-> file]

TopicDir(name, subs) == [name |-> name, subs |-> subs]

\* the files the last subtopic of the model's corpus is drawn from: for the
\* questions, among them the one file with BATCH_SIZE rows and more
LastFileNames(flow) ==
  IF flow = "content" THEN {NoRows, "three", "one"} ELSE {"two", "full"}

\* the files the second subtopic is drawn from
SecondFileNames(flow) ==
  IF flow = "content" THEN ContentFileNames ELSE QuestionFileNames \cup {NoRows}

\* two topics; "S1" names a subtopic of each
Corpora(flow) ==
  { <<TopicDir("T1", <<SubDir("S1", f1), SubDir("S2", f2)>>),
      TopicDir("T2", <<SubDir("S1", f3)>>)>> :
    f1 \in FileNames(flow), f2 \in SecondFileNames(flow), f3 \in LastFileNames(flow) }

\* what ingest() does with the file of a subtopic before it builds rows
Outcome(kind, logs, err) == [kind |-> kind, logs |-> logs, err |-> err]

\* an ingest() that opens the file without asking whether it exists
LoadFileNoExists(flow, file, subtopic_name) ==
  IF ~file.exists THEN Outcome("crash", {}, "FileNotFoundError")
  ELSE IF flow = "content"
  THEN IF ~file.parses THEN Outcome("crash", {}, "YAMLError")
       ELSE IF ~IsDict(file.data)
            THEN Outcome("skip", {LogRec("error", "Invalid YAML structure", subtopic_name)}, "")
            ELSE Outcome("rows", {}, "")
  ELSE IF ~file.parses
       THEN Outcome("skip", {LogRec("error", "Failed to parse", subtopic_name)}, "")
       ELSE IF ~IsDict(file.data) \/ ~HasKey(file.data, "by_level")
            THEN Outcome("skip", {LogRec("error", "Invalid YAML structure", subtopic_name)}, "")
            ELSE Outcome("rows", {}, "")

\* a question flow that reads data["by_level"] without testing for the key
LoadFileNoWrapperTest(flow, file, subtopic_name) ==
  IF flow = "content"
  THEN IF ~file.exists
       THEN Outcome("skip", {LogRec("warning", "No chunks_by_level.yaml", subtopic_name)}, "")
       ELSE IF ~file.parses THEN Outcome("crash", {}, "YAMLError")
       ELSE IF ~IsDict(file.data)
            THEN Outcome("skip", {LogRec("error", "Invalid YAML structure", subtopic_name)}, "")
            ELSE Outcome("rows", {}, "")
  ELSE IF ~file.exists
       THEN Outcome("skip", {LogRec("warning", "No questions_by_level.yaml", subtopic_name)}, "")
       ELSE IF ~file.parses
            THEN Outcome("skip", {LogRec("error", "Failed to parse", subtopic_name)}, "")
       ELSE IF ~IsDict(file.data)
            THEN Outcome("skip", {LogRec("error", "Invalid YAML structure", subtopic_name)}, "")
       ELSE IF ~HasKey(file.data, "by_level") THEN Outcome("crash", {}, "KeyError")
            ELSE Outcome("rows", {}, "")

LoadFile(flow, file, subtopic_name) ==
  IF flow = "content"
  THEN IF ~file.exists
       THEN Outcome("skip", {LogRec("warning", "No chunks_by_level.yaml", subtopic_name)}, "")
       ELSE IF ~file.parses THEN Outcome("crash", {}, "YAMLError")
       ELSE IF ~IsDict(file.data)
            THEN Outcome("skip", {LogRec("error", "Invalid YAML structure", subtopic_name)}, "")
            ELSE Outcome("rows", {}, "")
  ELSE IF ~file.exists
       THEN Outcome("skip", {LogRec("warning", "No questions_by_level.yaml", subtopic_name)}, "")
       ELSE IF ~file.parses
            THEN Outcome("skip", {LogRec("error", "Failed to parse", subtopic_name)}, "")
       ELSE IF ~IsDict(file.data) \/ ~HasKey(file.data, "by_level")
            THEN Outcome("skip", {LogRec("error", "Invalid YAML structure", subtopic_name)}, "")
            ELSE Outcome("rows", {}, "")

\* the row loop of a subtopic from position (li, qi) with the batch built so far
RowLoop(flow, file, subtopic_id, subtopic_name, li, qi, batch) ==
  IF flow = "content"
  THEN ContentLevels(file.data, subtopic_id, li, batch)
  ELSE QuestionLevels(Item(file.data, "by_level"), subtopic_id, subtopic_name,
                      li, qi, batch, {})

(***************************************************************************)
(* What a subtopic sends when every request is applied: its batches, in    *)
(* the order of the safe_upsert calls.                                     *)
(***************************************************************************)
RECURSIVE BatchesFrom(_, _, _, _, _, _)

BatchesFrom(fl, file, subtopic_id, subtopic_name, l, q) ==
  LET r == RowLoop(fl, file, subtopic_id, subtopic_name, l, q, <<>>) IN
    IF r.kind = "flush"
    THEN <<r.batch>> \o BatchesFrom(fl, file, subtopic_id, subtopic_name, r.li, r.qi)
    ELSE IF r.kind = "end" /\ NeedsFlush(r.batch) THEN <<r.batch>> ELSE <<>>

Batches(fl, file, subtopic_id, subtopic_name) ==
  IF LoadFile(fl, file, subtopic_name).kind = "rows"
  THEN BatchesFrom(fl, file, subtopic_id, subtopic_name, 1, 0)
  ELSE <<>>

(***************************************************************************)
(* One unit of work, a subtopic of a topic, processed from start to end    *)
(* against store d with every request applied: the body of the two loops   *)
(* of ingest().                                                            *)
(***************************************************************************)
Unit(topic, sub, file) == [topic |-> topic, sub |-> sub, file |-> file]

RECURSIVE ApplyBatches(_, _, _, _)

ApplyBatches(d, fl, bs, i) ==
  IF i > Len(bs) THEN d ELSE ApplyBatches(UpsertRows(d, fl, bs[i]), fl, bs, i + 1)

ProcessUnit(d, fl, unit) ==
  LET d1 == UpsertTopic(d, unit.topic)
      tid == CHOOSE id \in SelectTopic(d1, unit.topic) : TRUE
      d2 == UpsertSubtopic(d1, tid, unit.sub)
      sid == CHOOSE id \in SelectSubtopic(d2, tid, unit.sub) : TRUE
  IN ApplyBatches(d2, fl, Batches(fl, FileOf(fl, unit.file), sid, unit.sub), 1)

RECURSIVE ProcessUnits(_, _, _, _)

\* the units processed one after the other, in the order the sequence gives
ProcessUnits(d, fl, units, i) ==
  IF i > Len(units) THEN d
  ELSE ProcessUnits(ProcessUnit(d, fl, units[i]), fl, units, i + 1)

(***************************************************************************)
(* State.  One process runs ingest() of one flow over the corpus, up to    *)
(* MaxRuns times in sequence against the same store.                       *)
(***************************************************************************)
VARIABLES
  flow,         \* which script runs: "content" or "questions"
  corpus,       \* the directory tree under CONTENT_ROOT
  run,          \* the number of the current run of ingest()
  db,           \* the store
  pc,           \* where ingest() is
  ti, si,       \* index of the current topic folder and subtopic folder
  topic_id, subtopic_id, batch_rows,   \* locals of ingest()
  li, qi,       \* the position of the row loop: level and item
  final,        \* the safe_upsert call under way is the one after the loop
  tries,        \* tries the retry decorator has left for the call under way
  log,          \* the records written to the log file
  crash,        \* the exception that ended the run, "" when none did
  call,         \* history of the last safe_upsert call: sends, successes, result
  hist,         \* history of the current run: the ids returned, the subtopics
                \* done, the requests applied (reqs) and attempted (sentFor),
                \* the hierarchy failure (hier)
  snapshot,     \* the store as the previous run left it
  clean,        \* no store request has failed for a reason outside the program
  edits,        \* how many times a file of the corpus was rewritten between runs
  lastUp,       \* for each conflict key, the last row a successful upsert carried
  tasks, wk,    \* the units of work and the workers of the parallel fan-out
  fp,           \* hash_content applied to two values: the inputs and the digests
  un            \* a parsed file and what each reader of level files makes of it

vars == <<flow, corpus, run, db, pc, ti, si, topic_id, subtopic_id, batch_rows,
          li, qi, final, tries, log, crash, call, hist, snapshot, clean, lastUp,
          tasks, wk, fp, un, edits>>

MaxRuns == 2

MaxEdits == 1

NoCall == [sends |-> 0, oks |-> 0, result |-> "none"]

NewHist ==
  [topics |-> {}, subs |-> {}, finished |-> {}, exhausted |-> {},
   sentKeys |-> <<>>, changed |-> {}, hierChanged |-> FALSE,
   reqs |-> <<>>, sentFor |-> {}, hier |-> {}]

Init ==
  /\ flow \in Flows
  /\ corpus \in Corpora(flow)
  /\ run = 1
  /\ db = EmptyDb
  /\ pc = "topics"
  /\ ti = 0 /\ si = 0
  /\ topic_id = 0 /\ subtopic_id = 0 /\ batch_rows = <<>>
  /\ li = 1 /\ qi = 0
  /\ final = FALSE
  /\ tries = MAX_RETRIES
  /\ log = {}
  /\ crash = ""
  /\ call = NoCall
  /\ hist = NewHist
  /\ snapshot = EmptyDb
  /\ clean = TRUE
  /\ lastUp = {}
  /\ tasks = <<>> /\ wk = <<>>
  /\ edits = 0
  /\ fp = <<>>
  /\ un = <<>>

topic_folder == corpus[ti]

subtopic_folder == corpus[ti].subs[si]

\* an exception that is caught around the subtopic: the loop goes on
RaiseAndGoOn(err) == pc' = "subtopics" /\ crash' = crash

\* an exception leaves ingest(): the process ends
Raise(err) == pc' = "crashed" /\ crash' = err

\* for topic_folder in topics
TopicLoop ==
  /\ pc = "topics"
  /\ IF ti < Len(corpus)
     THEN /\ ti' = ti + 1
          /\ pc' = "topic_create"
          /\ log' = log
     ELSE /\ ti' = ti
          /\ pc' = "done"
          /\ log' = log \cup {LogRec("info", "Ingestion completed", flow)}
  /\ UNCHANGED <<flow, corpus, run, db, si, topic_id, subtopic_id, batch_rows, li, qi,
                 final, tries, crash, call, hist, snapshot, clean, lastUp, tasks, wk, fp, un, edits>>

\* get_or_create_topic, the upsert
TopicCreate ==
  /\ pc = "topic_create"
  /\ db' = UpsertTopic(db, topic_folder.name)
  /\ pc' = "topic_lookup"
  /\ hist' = [hist EXCEPT !.hierChanged = @ \/ (db' # db)]
  /\ UNCHANGED <<flow, corpus, run, ti, si, topic_id, subtopic_id, batch_rows, li, qi,
                 final, tries, log, crash, call, snapshot, clean, lastUp, tasks, wk, fp, un, edits>>

\* get_or_create_topic, the select(...).single() and the return into ingest()
TopicLookup ==
  /\ pc = "topic_lookup"
  /\ IF Cardinality(SelectTopic(db, topic_folder.name)) = 1
     THEN /\ topic_id' = CHOOSE id \in SelectTopic(db, topic_folder.name) : TRUE
          /\ log' = log \cup {LogRec("info", "Processing topic", topic_folder.name)}
          /\ hist' = [hist EXCEPT !.topics = @ \cup {[ti |-> ti, id |-> topic_id']}]
          /\ si' = 0
          /\ pc' = "subtopics"
          /\ UNCHANGED <<crash, clean>>
     ELSE /\ log' = log \cup {LogRec("error", "Failed to get/create topic", topic_folder.name)}
          /\ Raise("HierarchyError")
          /\ UNCHANGED <<topic_id, hist, si, clean>>
  /\ UNCHANGED <<flow, corpus, run, db, ti, subtopic_id, batch_rows, li, qi,
                 final, tries, call, snapshot, lastUp, tasks, wk, fp, un, edits>>

\* a loop that reads the file of a subtopic without resolving its id first
SubtopicLoopUnresolved ==
  /\ pc = "subtopics"
  /\ IF si < Len(topic_folder.subs)
     THEN si' = si + 1 /\ pc' = "load"
     ELSE si' = si /\ pc' = "topics"
  /\ UNCHANGED <<flow, corpus, run, db, ti, topic_id, subtopic_id, batch_rows, li, qi,
                 final, tries, log, crash, call, hist, snapshot, clean, lastUp, tasks, wk, fp, un,
                 edits>>

\* for subtopic_folder in subtopics
SubtopicLoop ==
  /\ pc = "subtopics"
  /\ IF si < Len(topic_folder.subs)
     THEN si' = si + 1 /\ pc' = "sub_create"
     ELSE si' = si /\ pc' = "topics"
  /\ UNCHANGED <<flow, corpus, run, db, ti, topic_id, subtopic_id, batch_rows, li, qi,
                 final, tries, log, crash, call, hist, snapshot, clean, lastUp, tasks, wk, fp, un, edits>>

\* get_or_create_subtopic, the upsert
SubtopicCreate ==
  /\ pc = "sub_create"
  /\ db' = UpsertSubtopic(db, topic_id, subtopic_folder.name)
  /\ pc' = "sub_lookup"
  /\ hist' = [hist EXCEPT !.hierChanged = @ \/ (db' # db)]
  /\ UNCHANGED <<flow, corpus, run, ti, si, topic_id, subtopic_id, batch_rows, li, qi,
                 final, tries, log, crash, call, snapshot, clean, lastUp, tasks, wk, fp, un, edits>>

\* get_or_create_subtopic, the select(...).single() and the return into ingest()
SubtopicLookup ==
  /\ pc = "sub_lookup"
  /\ IF Cardinality(SelectSubtopic(db, topic_id, subtopic_folder.name)) = 1
     THEN /\ subtopic_id' = CHOOSE id \in SelectSubtopic(db, topic_id, subtopic_folder.name) : TRUE
          /\ log' = log \cup {LogRec("info", "Processing subtopic", subtopic_folder.name)}
          /\ hist' = [hist EXCEPT !.subs = @ \cup {[ti |-> ti, si |-> si, id |-> subtopic_id']}]
          /\ pc' = "load"
          /\ UNCHANGED <<crash, clean>>
     ELSE /\ log' = log \cup {LogRec("error", "Failed to get/create subtopic", subtopic_folder.name)}
          /\ Raise("HierarchyError")
          /\ UNCHANGED <<subtopic_id, hist, clean>>
  /\ UNCHANGED <<flow, corpus, run, db, ti, si, topic_id, batch_rows, li, qi,
                 final, tries, call, snapshot, lastUp, tasks, wk, fp, un, edits>>

\* the store rejects the upsert or the select of get_or_create_topic or of
\* get_or_create_subtopic: the helper logs the name and re-raises
HierarchyFail ==
  /\ pc \in {"topic_create", "topic_lookup", "sub_create", "sub_lookup"}
  /\ log' = log \cup
       {IF pc \in {"topic_create", "topic_lookup"}
        THEN LogRec("error", "Failed to get/create topic", topic_folder.name)
        ELSE LogRec("error", "Failed to get/create subtopic", subtopic_folder.name)}
  /\ Raise("HierarchyError")
  /\ clean' = FALSE
  /\ hist' = [hist EXCEPT !.hier = {[step |-> pc, ti |-> ti, si |-> si, db |-> db]}]
  /\ UNCHANGED <<flow, corpus, run, db, ti, si, topic_id, subtopic_id, batch_rows, li, qi,
                 final, tries, call, snapshot, lastUp, tasks, wk, fp, un, edits>>

\* the file of the subtopic: exists(), yaml.safe_load, the structure checks
ReadFile ==
  /\ pc = "load"
  /\ LET o == LoadFile(flow, FileOf(flow, subtopic_folder.file), subtopic_folder.name) IN
       /\ log' = log \cup o.logs
       /\ batch_rows' = <<>>
       /\ li' = 1 /\ qi' = 0
       /\ IF o.kind = "crash" THEN Raise(o.err)
          ELSE /\ pc' = IF o.kind = "skip" THEN "subtopics" ELSE "build"
               /\ crash' = crash
       /\ hist' = IF o.kind = "skip"
                  THEN [hist EXCEPT !.finished = @ \cup {<<ti, si>>}]
                  ELSE hist
  /\ UNCHANGED <<flow, corpus, run, db, ti, si, topic_id, subtopic_id,
                 final, tries, call, snapshot, clean, lastUp, tasks, wk, fp, un, edits>>

\* the row loop, up to the safe_upsert call it makes (a full batch, or the
\* rest after the loop), to its end with nothing left to send, or to an
\* exception
BuildRows ==
  /\ pc = "build"
  /\ LET r == RowLoop(flow, FileOf(flow, subtopic_folder.file), subtopic_id, subtopic_folder.name,
                      li, qi, batch_rows) IN
       /\ log' = log \cup r.logs
       /\ batch_rows' = r.batch
       /\ li' = r.li /\ qi' = r.qi
       /\ final' = (r.kind = "end")
       /\ IF r.kind = "crash" THEN Raise(r.err) /\ UNCHANGED <<tries, call, hist>>
          ELSE IF r.kind = "end" /\ ~NeedsFlush(r.batch)
          THEN /\ pc' = "subtopics"
               /\ hist' = [hist EXCEPT !.finished = @ \cup {<<ti, si>>}]
               /\ UNCHANGED <<crash, tries, call>>
          ELSE /\ pc' = "upsert"
               /\ tries' = MAX_RETRIES
               /\ call' = NoCall
               /\ UNCHANGED <<crash, hist>>
  /\ UNCHANGED <<flow, corpus, run, db, ti, si, topic_id, subtopic_id,
                 snapshot, clean, lastUp, tasks, wk, fp, un, edits>>

\* the history of upserts: the last row sent under each conflict key
Remember(last, rows) ==
  LET sent == {[key |-> ConflictKey(flow, rows[i]), row |-> rows[i]] : i \in 1..Len(rows)}
  IN {p \in last : \A q \in sent : q.key # p.key} \cup sent

\* a request that leaves out the rows the table already holds
PayloadUnlessStored(stored, rows) == SelectSeq(rows, LAMBDA r : r \notin stored)

\* safe_upsert: the rows handed to upsert() are the rows of the batch, all of
\* them; the table is not read
Payload(stored, rows) == rows

\* the request of the safe_upsert call in progress
Request == Payload(db[TableOf(flow)], batch_rows)

\* safe_upsert: an attempt the store applies; the call returns into ingest()
UpsertOk ==
  /\ pc = "upsert"
  /\ StoreAccepts(flow, Request)
  /\ db' = UpsertRows(db, flow, Request)
  /\ call' = [sends |-> call.sends + 1, oks |-> call.oks + 1, result |-> "returned"]
  /\ lastUp' = Remember(lastUp, Request)
  /\ hist' = [hist EXCEPT
        !.sentKeys = @ \o [i \in 1..Len(Request) |-> ConflictKey(flow, Request[i])],
        !.changed = @ \cup {ConflictKey(flow, Request[i]) :
                              i \in {j \in 1..Len(Request) :
                                       Request[j] \notin db[TableOf(flow)]}},
        !.finished = IF final THEN @ \cup {<<ti, si>>} ELSE @,
        !.reqs = Append(@, [pos |-> <<ti, si>>, rows |-> Request]),
        !.sentFor = @ \cup {<<ti, si>>}]
  /\ IF final
     THEN /\ pc' = "subtopics"
          /\ log' = log \cup {LogRec("info", "Inserted final batch", subtopic_folder.name)}
          /\ batch_rows' = batch_rows
     ELSE /\ pc' = "build"
          /\ log' = log
          /\ batch_rows' = <<>>
  /\ UNCHANGED <<flow, corpus, run, ti, si, topic_id, subtopic_id, li, qi, final, tries,
                 crash, snapshot, clean, tasks, wk, fp, un, edits>>

\* safe_upsert: a failed attempt is logged, and retried or re-raised
FailedAttempt ==
  /\ log' = log \cup {LogRec("error", "Upsert failed", TableOf(flow))}
  /\ tries' = RetryAfterFailure(tries).tries
  /\ IF RetryAfterFailure(tries).raise
     THEN /\ Raise("WriteError")
          /\ call' = [call EXCEPT !.sends = @ + 1, !.result = "raised"]
          /\ hist' = [hist EXCEPT !.exhausted = @ \cup {<<ti, si>>},
                                  !.sentFor = @ \cup {<<ti, si>>}]
     ELSE /\ call' = [call EXCEPT !.sends = @ + 1]
          /\ hist' = [hist EXCEPT !.sentFor = @ \cup {<<ti, si>>}]
          /\ UNCHANGED <<pc, crash>>
  /\ UNCHANGED <<flow, corpus, run, db, ti, si, topic_id, subtopic_id, batch_rows, li, qi,
                 final, snapshot, lastUp, tasks, wk, fp, un, edits>>

\* safe_upsert: an attempt on a request the store rejects
UpsertReject ==
  /\ pc = "upsert"
  /\ ~StoreAccepts(flow, Request)
  /\ FailedAttempt
  /\ clean' = clean

\* safe_upsert: an attempt that fails for a transient reason
UpsertFail ==
  /\ pc = "upsert"
  /\ StoreAccepts(flow, Request)
  /\ FailedAttempt
  /\ clean' = FALSE

\* the script is started again, on the same corpus and store
StartRun ==
  /\ pc \in {"done", "crashed"}
  /\ run < MaxRuns
  /\ run' = run + 1
  /\ snapshot' = db
  /\ pc' = "topics"
  /\ ti' = 0 /\ si' = 0
  /\ topic_id' = 0 /\ subtopic_id' = 0 /\ batch_rows' = <<>>
  /\ li' = 1 /\ qi' = 0
  /\ final' = FALSE
  /\ tries' = MAX_RETRIES
  /\ crash' = ""
  /\ call' = NoCall
  /\ hist' = NewHist
  /\ UNCHANGED <<flow, corpus, db, log, clean, lastUp, tasks, wk, fp, un, edits>>

\* between two runs, one file of the corpus is rewritten
EditFile ==
  /\ pc \in {"done", "crashed"}
  /\ run < MaxRuns
  /\ edits < MaxEdits
  /\ edits' = edits + 1
  /\ \E t \in 1..Len(corpus) : \E u \in 1..Len(corpus[t].subs) :
       \E f \in FileNames(flow) \ {corpus[t].subs[u].file} :
         corpus' = [corpus EXCEPT ![t].subs[u].file = f]
  /\ UNCHANGED <<flow, run, db, pc, ti, si, topic_id, subtopic_id, batch_rows, li, qi,
                 final, tries, log, crash, call, hist, snapshot, clean, lastUp, tasks, wk, fp, un>>

Next ==
  \/ TopicLoop
  \/ TopicCreate
  \/ TopicLookup
  \/ SubtopicLoop
  \/ SubtopicCreate
  \/ SubtopicLookup
  \/ HierarchyFail
  \/ ReadFile
  \/ BuildRows
  \/ UpsertOk
  \/ UpsertReject
  \/ UpsertFail
  \/ StartRun

Spec == Init /\ [][Next]_vars

\* the content flow with a store that never fails, over a corpus that is
\* edited between the runs
InitEdit == Init /\ flow = "content"

NextEdit ==
  \/ TopicLoop
  \/ TopicCreate
  \/ TopicLookup
  \/ SubtopicLoop
  \/ SubtopicCreate
  \/ SubtopicLookup
  \/ ReadFile
  \/ BuildRows
  \/ UpsertOk
  \/ StartRun
  \/ EditFile

SpecEdit == InitEdit /\ [][NextEdit]_vars

(***************************************************************************)
(* Properties of the sequential runs.                                      *)
(***************************************************************************)
Positions == {<<t, u>> : t \in 1..Len(corpus), u \in 1..2} \cap
             {p \in (1..Len(corpus)) \X (1..2) : p[2] <= Len(corpus[p[1]].subs)}

Follows(c, b) == c[1] > b[1] \/ (c[1] = b[1] /\ c[2] > b[2])

Ended == pc \in {"done", "crashed"}

FormatErrors == {"YAMLError", "AttributeError", "TypeError"}

\* the question hashes the items of the subtopic at position p yield
HashesAt(p) ==
  LET bs == Batches("questions", QuestionFile(corpus[p[1]].subs[p[2]].file), 0, "")
  IN {bs[i][j].question_hash : <<i, j>> \in
        {x \in (1..Len(bs)) \X (1..BATCH_SIZE) : x[2] <= Len(bs[x[1]])}}

\* the question hashes that two distinct subtopics have in common
SharedHashes ==
  IF flow # "questions" THEN {}
  ELSE UNION {HashesAt(p) \cap HashesAt(c) : <<p, c>> \in
                {x \in Positions \X Positions : x[1] # x[2]}}

\* C1: when the upsert of a batch of subtopic B fails on every one of the
\* MAX_RETRIES attempts, every subtopic that follows B in the traversal is still
\* fully ingested in the same run: the failure aborts B only, not the run.
C1_PartialFailureIsolation ==
  Ended => \A b \in hist.exhausted : \A c \in Positions :
              Follows(c, b) => c \in hist.finished

\* C2: a second run over the unchanged corpus with no store failure leaves
\* the four tables as the first run left them, and every write of the second
\* run replaces a row with identical field values.
C2_IdempotentRerun ==
  (run >= 2 /\ Ended /\ clean) =>
     /\ db = snapshot
     /\ ~hist.hierChanged
     /\ hist.changed = {}

Occurrences(keys, k) == Cardinality({i \in 1..Len(keys) : keys[i] = k})

\* C2 as amended: the tables end the second run as the first run left them,
\* and a write of the second run changes a stored row only in the questions
\* table, at a question_hash that the run sends more than once.
C2_IdempotentRerunAmended ==
  (run >= 2 /\ Ended /\ clean) =>
     /\ db = snapshot
     /\ ~hist.hierChanged
     /\ \A k \in hist.changed :
          flow = "questions" /\ Occurrences(hist.sentKeys, k) >= 2

C2_Witness ==
  run = 2 /\ pc = "done" /\ clean /\ hist.changed # {} /\ db.questions # {}

\* C4: when two distinct subtopics each contain a structurally identical
\* question item, the run of the question flow ends with exactly one questions
\* row for that question_hash and completes without a write error.
C4_QuestionDedup ==
  (flow = "questions" /\ run = 1 /\ Ended /\ clean /\ crash \notin FormatErrors
     /\ SharedHashes # {}) =>
     /\ crash = ""
     /\ \A h \in SharedHashes :
          Cardinality({r \in db.questions : r.question_hash = h}) = 1

\* C5: every content row and every questions row carries the id of a stored
\* subtopics row, and every subtopics row the id of a stored topics row.
C5_Referential ==
  /\ \A r \in db.content : \E u \in db.subtopics : u.subtopic_id = r.subtopic_id
  /\ \A r \in db.questions : \E u \in db.subtopics : u.subtopic_id = r.subtopic_id
  /\ \A u \in db.subtopics : \E t \in db.topics : t.topic_id = u.topic_id

C5_Witness ==
  /\ Cardinality(db.topics) = 2
  /\ Cardinality(db.subtopics) = 3
  /\ Cardinality({r.subtopic_id : r \in db.questions}) >= 2

\* C6: when an upsert request with rows of a subtopic is sent,
\* get_or_create_subtopic has returned that subtopic's id in this run and the
\* subtopics row is stored; when get_or_create_subtopic is called,
\* get_or_create_topic has returned the id of the topic it is called with.
C6_Ordering ==
  /\ pc = "upsert" =>
       \A i \in 1..Len(batch_rows) :
          /\ [ti |-> ti, si |-> si, id |-> batch_rows[i].subtopic_id] \in hist.subs
          /\ SelectSubtopic(db, topic_id, subtopic_folder.name) = {batch_rows[i].subtopic_id}
  /\ pc \in {"sub_create", "sub_lookup"} =>
       /\ [ti |-> ti, id |-> topic_id] \in hist.topics
       /\ SelectTopic(db, topic_folder.name) = {topic_id}

C6_Witness ==
  pc = "upsert" /\ ti = 2 /\ run = 2 /\ Len(batch_rows) >= 2

\* C7: one safe_upsert call sends the batch at most MAX_RETRIES times, stops at
\* the first attempt that succeeds and returns, and after MAX_RETRIES failed
\* attempts has logged the error and re-raises: it never returns normally when
\* every attempt failed and never sends beyond the budget.
C7_BoundedRetry ==
  /\ call.sends <= MAX_RETRIES
  /\ call.oks <= 1
  /\ (pc = "upsert" => call.result = "none" /\ call.oks = 0 /\ call.sends < MAX_RETRIES)
  /\ (call.result = "returned" <=> call.oks = 1)
  /\ (call.result = "raised" <=> (call.sends = MAX_RETRIES /\ call.oks = 0))
  /\ (call.result = "raised" =>
        /\ pc = "crashed" /\ crash = "WriteError"
        /\ LogRec("error", "Upsert failed", TableOf(flow)) \in log)

C7_Witness ==
  call.result = "raised" /\ call.sends = MAX_RETRIES /\ clean = FALSE

\* C10: a file that cannot be parsed or fails structural validation is logged
\* and skipped, and the run goes on: no run is ended by an exception that the
\* file of one subtopic raises.
C10_FormatErrorIsolation == crash \notin FormatErrors

(***************************************************************************)
(* Properties of the handling of one subtopic.                             *)
(***************************************************************************)
FileAt(p) == FileOf(flow, corpus[p[1]].subs[p[2]].file)

NameAt(p) == corpus[p[1]].subs[p[2]].name

\* the ids get_or_create_subtopic has returned in this run for position p
IdsAt(p) == {h.id : h \in {x \in hist.subs : x.ti = p[1] /\ x.si = p[2]}}

\* ingest() has reached the subtopic at p in this run and is past its file checks
Past(p) == IdsAt(p) # {} /\ ~(<<ti, si>> = p /\ pc = "load")

\* ingest() is between the subtopics, or over without an exception
GoesOn == pc \in {"subtopics", "topics", "done"}

\* the subtopics of a corpus in the order of the traversal
UnitsOf(c) ==
  LET flat(t) == [u \in 1..Len(c[t].subs) |->
                    Unit(c[t].name, c[t].subs[u].name, c[t].subs[u].file)]
  IN flat(1) \o flat(2)

\* the units with every file of the given name taken away
Without(units, name) ==
  [i \in 1..Len(units) |->
     IF units[i].file = name THEN [units[i] EXCEPT !.file = "missing"] ELSE units[i]]

\* C11: when the file of a subtopic is absent, a warning is logged, no upsert
\* request is sent for that subtopic, and ingest() goes on with the next
\* subtopic.
C11_MissingFile ==
  \A p \in Positions :
     (~FileAt(p).exists /\ Past(p)) =>
        /\ LogRec("warning",
                  IF flow = "content" THEN "No chunks_by_level.yaml"
                  ELSE "No questions_by_level.yaml", NameAt(p)) \in log
        /\ p \notin hist.sentFor
        /\ (<<ti, si>> = p => GoesOn)

\* the first subtopic has no file, the run is over and wrote the rows of the
\* second
C11_Witness ==
  /\ run = 1 /\ pc = "done"
  /\ ~FileAt(<<1, 1>>).exists
  /\ hist.sentFor = {<<1, 2>>}
  /\ db[TableOf(flow)] # {}

\* C12: a questions_by_level.yaml that parses to a value without the by_level
\* key is logged as an error and skipped: no request is sent and no questions
\* row is stored for its subtopic, the run is not ended by it, and a run that
\* completes leaves the store as it would be with the file absent.
C12_MissingWrapper ==
  flow = "questions" =>
     /\ \A p \in Positions :
          (corpus[p[1]].subs[p[2]].file = "nowrapper" /\ Past(p)) =>
             /\ LogRec("error", "Invalid YAML structure", NameAt(p)) \in log
             /\ p \notin hist.sentFor
             /\ \A r \in db.questions : r.subtopic_id \notin IdsAt(p)
             /\ (<<ti, si>> = p => GoesOn)
     /\ (pc = "done" /\ clean) =>
          db = ProcessUnits(EmptyDb, flow, Without(UnitsOf(corpus), "nowrapper"), 1)

\* the first subtopic has a file without the wrapper, the run is over and the
\* other two subtopics have their rows
C12_Witness ==
  /\ flow = "questions" /\ run = 1 /\ pc = "done"
  /\ corpus[1].subs[1].file = "nowrapper"
  /\ hist.sentFor = {<<1, 2>>, <<2, 1>>}
  /\ Cardinality({r.subtopic_id : r \in db.questions}) = 2

RECURSIVE RowsFrom(_, _, _)

\* the rows of the requests reqs[i..] that were sent for position p, in order
RowsFrom(reqs, p, i) ==
  IF i > Len(reqs) THEN <<>>
  ELSE (IF reqs[i].pos = p THEN reqs[i].rows ELSE <<>>) \o RowsFrom(reqs, p, i + 1)

\* the rows the store has accepted for position p in this run
SentAt(p) == RowsFrom(hist.reqs, p, 1)

\* a questions file of the shape the flow reads: by_level maps each level it
\* has to a block whose questions, when it has any, are a list of mappings
WellFormed(file) ==
  /\ file.exists /\ file.parses
  /\ IsDict(file.data) /\ HasKey(file.data, "by_level")
  /\ LET levels == Item(file.data, "by_level") IN
       /\ IsDict(levels)
       /\ \A i \in 1..Len(YamlLevels) :
            HasKey(levels, YamlLevels[i]) =>
               LET block == Item(levels, YamlLevels[i]) IN
                 /\ IsDict(block)
                 /\ HasKey(block, "questions") =>
                      /\ Item(block, "questions").tag = "seq"
                      /\ \A j \in 1..Len(Item(block, "questions").items) :
                           IsDict(Item(block, "questions").items[j])

\* the items of a well-formed file, level by level in the order of the table
ItemsOfLevel(file, lv) ==
  LET levels == Item(file.data, "by_level") IN
    IF HasKey(levels, lv) /\ HasKey(Item(levels, lv), "questions")
    THEN Item(Item(levels, lv), "questions").items
    ELSE <<>>

ItemsOf(file) ==
  ItemsOfLevel(file, "beginner") \o ItemsOfLevel(file, "intermediate")
    \o ItemsOfLevel(file, "advanced")

\* the item carries a type that is not empty
HasType(q) ==
  HasKey(q, "type") /\ Item(q, "type") \notin {Null, Str(""), List(<<>>), Map(<<>>)}

\* C13: in the question flow every item with a non-empty type yields exactly
\* one row and every item without a type yields none and a warning; an item
\* without a type ends neither the level nor the run, and the rows of the
\* other items are sent and stored.
C13_ItemSkip ==
  flow = "questions" =>
     \A p \in Positions :
        (Past(p) /\ WellFormed(FileAt(p))) =>
           /\ (pc = "crashed" /\ <<ti, si>> = p) => crash = "WriteError"
           /\ p \in hist.finished =>
                LET sent == SentAt(p)
                    items == ItemsOf(FileAt(p))
                IN /\ [i \in 1..Len(sent) |-> sent[i].content_json]
                        = SelectSeq(items, HasType)
                   /\ (\E i \in 1..Len(items) : ~HasType(items[i]))
                        => LogRec("warning", "Skipping question with missing type",
                                  NameAt(p)) \in log
                   /\ \A i \in 1..Len(sent) :
                        sent[i].question_hash \in {r.question_hash : r \in db.questions}

\* the subtopic whose file has items without a type among twenty with one is
\* done, and the twenty rows are stored under its id
C13_Witness ==
  /\ flow = "questions" /\ run = 1 /\ pc = "done"
  /\ corpus[2].subs[1].file = "full"
  /\ <<2, 1>> \in hist.finished
  /\ Len(SentAt(<<2, 1>>)) = 2 * BATCH_SIZE
  /\ Cardinality({r \in db.questions : r.subtopic_id \in IdsAt(<<2, 1>>)}) = 2 * BATCH_SIZE

\* C14: the buffer never holds more than BATCH_SIZE rows; the row that brings
\* it to BATCH_SIZE triggers a flush of exactly those rows, after which the
\* buffer is empty; every upsert request carries between 1 and BATCH_SIZE rows.
C14_BatchBound ==
  /\ Len(batch_rows) <= BATCH_SIZE
  /\ pc = "upsert" =>
       /\ Len(batch_rows) >= 1
       /\ ~final => Len(batch_rows) = BATCH_SIZE
  /\ pc = "build" => batch_rows = <<>>
  /\ \A i \in 1..Len(hist.reqs) :
       Len(hist.reqs[i].rows) >= 1 /\ Len(hist.reqs[i].rows) <= BATCH_SIZE

\* a full buffer is about to be sent from inside the loop, after an earlier
\* full buffer of the same subtopic was sent and the buffer emptied
C14_Witness ==
  /\ pc = "upsert" /\ ~final /\ Len(batch_rows) = BATCH_SIZE
  /\ \E i \in 1..Len(hist.reqs) :
       /\ hist.reqs[i].pos = <<ti, si>>
       /\ Len(hist.reqs[i].rows) = BATCH_SIZE
       /\ hist.reqs[i].rows # batch_rows

\* the levels of the table that a mapping has, in the order of the table
LevelsIn(data) == SelectSeq(YamlLevels, LAMBDA lv : HasKey(data, lv))

\* the file is one the flow builds rows from without an exception
Loadable(file) ==
  IF flow = "content"
  THEN /\ file.exists /\ file.parses /\ IsDict(file.data)
       /\ \A i \in 1..Len(LevelsIn(file.data)) :
            IsDict(Item(file.data, LevelsIn(file.data)[i]))
  ELSE WellFormed(file)

QuestionRowsOf(file, id, lv) ==
  LET typed == SelectSeq(ItemsOfLevel(file, lv), HasType)
  IN [i \in 1..Len(typed) |-> QuestionRow(id, DIFFICULTY_MAP("questions", lv), typed[i])]

\* the rows the flow builds for the subtopic at p, given the id it resolved:
\* one per level present (content), one per typed item (questions)
BuiltRows(p, id) ==
  LET file == FileAt(p) IN
    IF ~Loadable(file) THEN <<>>
    ELSE IF flow = "content"
    THEN [i \in 1..Len(LevelsIn(file.data)) |->
            ContentRow(id, DIFFICULTY_MAP("content", LevelsIn(file.data)[i]),
                       Item(file.data, LevelsIn(file.data)[i]))]
    ELSE QuestionRowsOf(file, id, "beginner") \o QuestionRowsOf(file, id, "intermediate")
           \o QuestionRowsOf(file, id, "advanced")

IdAt(p) == CHOOSE id \in IdsAt(p) : TRUE

\* C15: with no write failure, when the processing of a subtopic is over every
\* row built for it has been sent in exactly one request, in order, none lost
\* and none twice; this is so before get_or_create_subtopic is called for the
\* next subtopic; no request holds rows of two subtopics.
C15_FlushRemainder ==
  /\ clean => \A p \in hist.finished : SentAt(p) = BuiltRows(p, IdAt(p))
  /\ pc \in {"sub_create", "sub_lookup"} =>
       \A p \in Positions : IdsAt(p) # {} => p \in hist.finished
  /\ \A i \in 1..Len(hist.reqs) : \A j \in 1..Len(hist.reqs[i].rows) :
       IdsAt(hist.reqs[i].pos) = {hist.reqs[i].rows[j].subtopic_id}
  /\ \A p, q \in Positions : p # q => IdsAt(p) \cap IdsAt(q) = {}

\* get_or_create_subtopic is about to be called for the second subtopic, and
\* the rows of the first were all sent, in one request
C15_Witness ==
  /\ pc = "sub_create" /\ ti = 1 /\ si = 2 /\ clean
  /\ <<1, 1>> \in hist.finished
  /\ Len(SentAt(<<1, 1>>)) >= 2
  /\ Len(hist.reqs) = 1

\* the stored difficulty the specification gives for a source difficulty
Remap(lv) ==
  IF flow = "content"
  THEN [beginner |-> "basic", intermediate |-> "core", advanced |-> "advanced"][lv]
  ELSE [beginner |-> "basic", intermediate |-> "core", advanced |-> "mastery"][lv]

\* for the subtopic at p, the stored difficulty and the payload of every row
\* that a recognized source difficulty of the file calls for, in order
Remapped(p) ==
  LET file == FileAt(p)
      levelRows(lv) ==
        IF flow = "content"
        THEN IF HasKey(file.data, lv) THEN <<<<Remap(lv), Item(file.data, lv)>>>> ELSE <<>>
        ELSE LET typed == SelectSeq(ItemsOfLevel(file, lv), HasType)
             IN [i \in 1..Len(typed) |-> <<Remap(lv), typed[i]>>]
  IN IF ~Loadable(file) THEN <<>>
     ELSE levelRows("beginner") \o levelRows("intermediate") \o levelRows("advanced")

\* the number of requests the store has accepted for position p
ReqCount(p) == Cardinality({i \in 1..Len(hist.reqs) : hist.reqs[i].pos = p})

\* C16: no request with an empty list of rows is sent; for a subtopic that
\* yields no row no request is sent at all, and a buffer emptied by a full
\* flush with nothing enqueued since is not flushed again.
C16_EmptyFlush ==
  /\ pc = "upsert" => batch_rows # <<>>
  /\ \A i \in 1..Len(hist.reqs) : hist.reqs[i].rows # <<>>
  /\ \A p \in hist.finished :
       LET built == Len(Remapped(p)) IN
         /\ built = 0 => p \notin hist.sentFor
         /\ clean => /\ ReqCount(p) * BATCH_SIZE < built + BATCH_SIZE
                      /\ ReqCount(p) * BATCH_SIZE >= built

\* the run is over: a file whose rows fill the buffer twice exactly took two
\* requests, a file that parses and yields no row took none
C16_Witness ==
  /\ pc = "done" /\ clean /\ run = 1
  /\ flow = "questions"
  /\ corpus[2].subs[1].file = "full" /\ ReqCount(<<2, 1>>) = 2
  /\ corpus[1].subs[2].file = NoRows /\ ReqCount(<<1, 2>>) = 0
  /\ <<1, 2>> \notin hist.sentFor

\* C17: when the store rejects the create or the lookup step of
\* get_or_create_topic or get_or_create_subtopic, the helper logs the name and
\* the error leaves ingest() at once, with no second attempt: ingest() goes no
\* further, the store stays as it was at the failure, and no request is sent
\* for the subtopic (for any subtopic of the topic) whose id was being resolved.
C17_HierarchyFailure ==
  \A f \in hist.hier :
     /\ pc = "crashed" /\ crash = "HierarchyError"
     /\ ti = f.ti /\ si = f.si
     /\ db = f.db
     /\ call.result # "raised"
     /\ IF f.step \in {"topic_create", "topic_lookup"}
        THEN /\ LogRec("error", "Failed to get/create topic", corpus[f.ti].name) \in log
             /\ \A p \in Positions :
                  p[1] = f.ti => IdsAt(p) = {} /\ p \notin hist.sentFor
        ELSE /\ LogRec("error", "Failed to get/create subtopic",
                       corpus[f.ti].subs[f.si].name) \in log
             /\ IdsAt(<<f.ti, f.si>>) = {}
             /\ <<f.ti, f.si>> \notin hist.sentFor
             /\ <<f.ti, f.si>> \notin hist.finished

\* the lookup of the last subtopic was rejected after the rows of the first
\* topic were written
C17_Witness ==
  /\ run = 1 /\ pc = "crashed"
  /\ \E f \in hist.hier : f.step = "sub_lookup" /\ f.ti = 2
  /\ hist.sentFor = {<<1, 1>>, <<1, 2>>}
  /\ Cardinality(db.subtopics) = 3

\* C18: beginner is stored as basic and intermediate as core in both flows,
\* advanced as advanced in content rows and as mastery in questions rows; no
\* row is stored with another difficulty, and every row sent comes from one of
\* the three source difficulties of its file, so that other keys yield no row.
C18_DifficultyRemap ==
  /\ \A r \in db.content : r.difficulty \in {"basic", "core", "advanced"}
  /\ \A r \in db.questions : r.difficulty \in {"basic", "core", "mastery"}
  /\ \A i \in 1..Len(hist.reqs) :
       LET called == Remapped(hist.reqs[i].pos)
           rows == hist.reqs[i].rows
       IN \A j \in 1..Len(rows) :
            <<rows[j].difficulty, rows[j].content_json>>
               \in {called[k] : k \in 1..Len(called)}
  /\ \A p \in hist.finished :
       clean => LET sent == SentAt(p)
                IN [i \in 1..Len(sent) |-> <<sent[i].difficulty, sent[i].content_json>>]
                     = Remapped(p)

\* a run of the question flow has stored rows of the three difficulties, one
\* of them from the advanced level of a file
C18_Witness ==
  /\ flow = "questions" /\ run = 1 /\ pc = "done"
  /\ {r.difficulty : r \in db.questions} = {"basic", "core", "mastery"}
  /\ \E r \in db.questions : r.difficulty = "mastery" /\ r.content_json = Q2

\* the content rows stored for the subtopic at position p of the corpus
ContentRowsAt(p) ==
  {r \in db.content :
     \E u \in db.subtopics : \E t \in db.topics :
        /\ t.topic_name = corpus[p[1]].name
        /\ u.topic_id = t.topic_id /\ u.subtopic_name = NameAt(p)
        /\ r.subtopic_id = u.subtopic_id}

\* C19: for a subtopic whose chunks_by_level.yaml has k of the three
\* difficulty keys, a run of the content flow on an empty store yields one
\* topics row, one subtopics row and k content rows for it, one per stored
\* difficulty, each with the content_hash of its source block and the title
\* and summary of that block.
C19_ContentScenario ==
  (flow = "content" /\ run = 1 /\ Ended /\ clean) =>
     \A p \in Positions :
        LET file == FileAt(p) IN
          (file.exists /\ file.parses /\ IsDict(file.data)) =>
             /\ Cardinality({t \in db.topics : t.topic_name = corpus[p[1]].name}) = 1
             /\ Cardinality({u \in db.subtopics :
                   /\ u.subtopic_name = NameAt(p)
                   /\ \E t \in db.topics : /\ t.topic_name = corpus[p[1]].name
                                            /\ t.topic_id = u.topic_id}) = 1
             /\ Cardinality(ContentRowsAt(p)) = Len(LevelsIn(file.data))
             /\ \A i \in 1..Len(LevelsIn(file.data)) :
                  LET block == Item(file.data, LevelsIn(file.data)[i]) IN
                    \E r \in ContentRowsAt(p) :
                       /\ r.difficulty = Remap(LevelsIn(file.data)[i])
                       /\ r.content_hash = hash_content(block)
                       /\ r.content_json = block
                       /\ r.title = Get(block, "title", Null)
                       /\ r.summary = Get(block, "summary", Null)

\* the request the store accepted last
LastReq == hist.reqs[Len(hist.reqs)]

\* the rows of a sequence that the table held when the run began
StoredBefore(rows) ==
  {i \in 1..Len(rows) : rows[i] \in snapshot[TableOf(flow)]}

\* C23: in every run a row is sent for every block or item the flow builds a
\* row from, whether or not the table already holds that very row: the
\* request holds the whole batch, the request of a final flush is the batch
\* that was built, a request sent inside the loop holds BATCH_SIZE rows, and
\* all of them are in the table afterwards.
C23_UnconditionalUpsert ==
  /\ pc = "upsert" => Request = batch_rows
  /\ (hist.reqs # <<>> /\ LastReq.pos = <<ti, si>>) =>
       /\ (pc = "subtopics" /\ batch_rows # <<>>) => LastReq.rows = batch_rows
       /\ (pc = "build" /\ batch_rows = <<>>) => Len(LastReq.rows) = BATCH_SIZE
       /\ pc \in {"subtopics", "build"} =>
            \A i \in 1..Len(LastReq.rows) : LastReq.rows[i] \in db[TableOf(flow)]

\* in a second run a final flush has sent rows that the table held, field for
\* field, when the run began
C23_Witness ==
  /\ run = 2 /\ pc = "subtopics" /\ batch_rows # <<>>
  /\ hist.reqs # <<>> /\ LastReq.pos = <<ti, si>>
  /\ LastReq.rows = batch_rows
  /\ StoredBefore(batch_rows) = 1..Len(batch_rows)

\* C24: no request holds two rows with the same conflict key: the rows of a
\* content request differ in (subtopic_id, difficulty), the rows of a
\* questions request differ in question_hash, also when an item appears twice
\* in one subtopic.
C24_DistinctKeys ==
  pc = "upsert" =>
    \A i, j \in 1..Len(Request) :
       i # j => ConflictKey(flow, Request[i]) # ConflictKey(flow, Request[j])

\* the subtopic at p is one ingest() skips: no file, a file that is no
\* mapping, a questions file unparseable or without by_level
Skipped(p) == LoadFile(flow, FileAt(p), NameAt(p)).kind = "skip"

\* the topics row and the subtopics row of the directory at p are stored
HierarchyStored(p) ==
  \E t \in db.topics : \E u \in db.subtopics :
     /\ t.topic_name = corpus[p[1]].name
     /\ u.subtopic_name = NameAt(p)
     /\ u.topic_id = t.topic_id
     /\ u.subtopic_id \in IdsAt(p)

\* C25: the topics and subtopics rows of a directory are stored before its
\* file is examined, and stay when the subtopic is skipped; a skipped
\* subtopic gets no request and no content or questions row; when a subtopic
\* is over the subtopics table holds the rows it held when the run began and
\* the rows of the subtopics resolved in the run, no other.
C25_HierarchyFirst ==
  /\ pc = "load" => HierarchyStored(<<ti, si>>)
  /\ \A p \in hist.finished :
       /\ HierarchyStored(p)
       /\ Skipped(p) =>
            /\ p \notin hist.sentFor
            /\ \A i \in 1..Len(hist.reqs) : hist.reqs[i].pos # p
            /\ \A r \in db[TableOf(flow)] : r.subtopic_id \notin IdsAt(p)
  /\ pc = "subtopics" =>
       /\ {u.subtopic_id : u \in db.subtopics} =
            {u.subtopic_id : u \in snapshot.subtopics} \cup {h.id : h \in hist.subs}
       /\ {t.topic_id : t \in db.topics} =
            {t.topic_id : t \in snapshot.topics} \cup {h.id : h \in hist.topics}

\* a first run is over; the file of one subtopic was missing and the file of
\* another was not of the shape the flow reads: both have their hierarchy rows
\* and no other row, while a third subtopic has rows
C25_Witness ==
  /\ pc = "done" /\ run = 1
  /\ \E p, q \in hist.finished :
       /\ p # q /\ Skipped(p) /\ Skipped(q)
       /\ ~FileAt(p).exists /\ FileAt(q).exists
       /\ HierarchyStored(p) /\ HierarchyStored(q)
       /\ \A r \in db[TableOf(flow)] : r.subtopic_id \notin IdsAt(p) \cup IdsAt(q)
  /\ db[TableOf(flow)] # {}

RECURSIVE Applied(_, _, _)

\* the table after the requests reqs[i..] were applied to it one by one
Applied(table, reqs, i) ==
  IF i > Len(reqs) THEN table
  ELSE Applied(UpsertTable(flow, table, reqs[i].rows), reqs, i + 1)

\* C26: when a safe_upsert call of the question flow has exhausted its
\* retries, the questions table is the table of the start of the run with
\* the requests accepted before the failure applied to it, earlier batches of
\* the same subtopic included (on an empty table and with no hash sent twice:
\* exactly the rows of those requests); no row of the failed batch was
\* written, and no request was sent for a later subtopic.
C26_NoRollback ==
  (flow = "questions" /\ crash = "WriteError") =>
     /\ db.questions = Applied(snapshot.questions, hist.reqs, 1)
     /\ LET sent == UNION {{hist.reqs[i].rows[j] : j \in 1..Len(hist.reqs[i].rows)} :
                             i \in 1..Len(hist.reqs)}
        IN (/\ snapshot.questions = {}
            /\ \A a, b \in sent : a.question_hash = b.question_hash => a = b)
           => db.questions = sent
     /\ \A i \in 1..Len(hist.reqs) : ~Follows(hist.reqs[i].pos, <<ti, si>>)
     /\ \A i \in 1..Len(batch_rows) :
          batch_rows[i] \in db.questions => batch_rows[i] \in snapshot.questions

\* the second batch of a subtopic has exhausted its retries in a first run:
\* the BATCH_SIZE rows of its first batch are stored, none of the second
C26_Witness ==
  /\ flow = "questions" /\ crash = "WriteError" /\ run = 1
  /\ ReqCount(<<ti, si>>) = 1
  /\ Len(batch_rows) = BATCH_SIZE
  /\ Cardinality({r \in db.questions : r.subtopic_id = subtopic_id}) = BATCH_SIZE
  /\ \A i \in 1..Len(batch_rows) : batch_rows[i] \notin db.questions

(***************************************************************************)
(* Properties of the content flow over an edited corpus.                   *)
(***************************************************************************)
\* C3: after any sequence of successful content upserts the content table
\* holds at most one row per (subtopic_id, difficulty), and that row is, field
\* for field, the last row upserted at that key.
C3_ConflictKey ==
  /\ \A r1, r2 \in db.content :
        (r1.subtopic_id = r2.subtopic_id /\ r1.difficulty = r2.difficulty) => r1 = r2
  /\ db.content = {p.row : p \in lastUp}

\* a second run has upserted, at a key the first run wrote, a row with another
\* payload
C3_Witness ==
  /\ run = 2 /\ pc = "done"
  /\ \E r \in db.content : \E o \in snapshot.content :
       /\ o.subtopic_id = r.subtopic_id /\ o.difficulty = r.difficulty
       /\ o.content_hash # r.content_hash
       /\ o.title # r.title

(***************************************************************************)
(* The parallel fan-out: NumWorkers workers share the store, each runs the *)
(* body of ingest() for one subtopic of a corpus of four.  The requests of *)
(* the workers reach the store in any order; the store applies each        *)
(* request atomically.                                                     *)
(***************************************************************************)
NumWorkers == 2

Workers == 1..NumWorkers

ParUnits(fl) ==
  IF fl = "content"
  THEN {Unit("T1", "S1", "three"), Unit("T1", "S2", "one"),
        Unit("T2", "S1", "three"), Unit("T2", "S2", "missing")}
  ELSE {Unit("T1", "S1", "two"), Unit("T1", "S2", "one"),
        Unit("T2", "S1", "solo"), Unit("T2", "S2", "missing")}

Worker(p, tid, sid, bs) == [pc |-> p, topic_id |-> tid, subtopic_id |-> sid, batches |-> bs]

InitPar ==
  /\ flow \in Flows
  /\ tasks \in [Workers -> ParUnits(flow)]
  /\ wk = [w \in Workers |-> Worker("topic_create", 0, 0, <<>>)]
  /\ db = EmptyDb
  /\ corpus = <<>>
  /\ run = 1
  /\ pc = "fanout"
  /\ ti = 0 /\ si = 0
  /\ topic_id = 0 /\ subtopic_id = 0 /\ batch_rows = <<>>
  /\ li = 1 /\ qi = 0
  /\ final = FALSE
  /\ tries = MAX_RETRIES
  /\ log = {}
  /\ crash = ""
  /\ call = NoCall
  /\ hist = NewHist
  /\ snapshot = EmptyDb
  /\ clean = TRUE
  /\ lastUp = {}
  /\ edits = 0
  /\ fp = <<>>
  /\ un = <<>>

seqVars == <<flow, corpus, run, pc, ti, si, topic_id, subtopic_id, batch_rows, li, qi,
             final, tries, log, crash, call, hist, snapshot, clean, lastUp, edits, fp, un>>

\* get_or_create_topic, the upsert, by worker w
WTopicCreate(w) ==
  /\ wk[w].pc = "topic_create"
  /\ db' = UpsertTopic(db, tasks[w].topic)
  /\ wk' = [wk EXCEPT ![w].pc = "topic_lookup"]
  /\ UNCHANGED <<seqVars, tasks>>

\* get_or_create_topic, the select(...).single(), by worker w
WTopicLookup(w) ==
  /\ wk[w].pc = "topic_lookup"
  /\ IF Cardinality(SelectTopic(db, tasks[w].topic)) = 1
     THEN wk' = [wk EXCEPT ![w].pc = "sub_create",
                           ![w].topic_id = CHOOSE id \in SelectTopic(db, tasks[w].topic) : TRUE]
     ELSE wk' = [wk EXCEPT ![w].pc = "failed"]
  /\ UNCHANGED <<seqVars, tasks, db>>

\* get_or_create_subtopic, the upsert, by worker w
WSubtopicCreate(w) ==
  /\ wk[w].pc = "sub_create"
  /\ db' = UpsertSubtopic(db, wk[w].topic_id, tasks[w].sub)
  /\ wk' = [wk EXCEPT ![w].pc = "sub_lookup"]
  /\ UNCHANGED <<seqVars, tasks>>

\* get_or_create_subtopic, the select(...).single(), by worker w; then the
\* file and the row loop, which touch nothing shared
WSubtopicLookup(w) ==
  /\ wk[w].pc = "sub_lookup"
  /\ LET ids == SelectSubtopic(db, wk[w].topic_id, tasks[w].sub) IN
       IF Cardinality(ids) = 1
       THEN LET sid == CHOOSE id \in ids : TRUE
                bs == Batches(flow, FileOf(flow, tasks[w].file), sid, tasks[w].sub)
            IN wk' = [wk EXCEPT ![w].pc = IF bs = <<>> THEN "done" ELSE "send",
                                ![w].subtopic_id = sid,
                                ![w].batches = bs]
       ELSE wk' = [wk EXCEPT ![w].pc = "failed"]
  /\ UNCHANGED <<seqVars, tasks, db>>

\* safe_upsert by worker w: the next batch is sent and applied, or rejected
WSend(w) ==
  /\ wk[w].pc = "send"
  /\ IF StoreAccepts(flow, Head(wk[w].batches))
     THEN /\ db' = UpsertRows(db, flow, Head(wk[w].batches))
          /\ wk' = [wk EXCEPT ![w].batches = Tail(@),
                              ![w].pc = IF Len(wk[w].batches) = 1 THEN "done" ELSE "send"]
     ELSE /\ db' = db
          /\ wk' = [wk EXCEPT ![w].pc = "failed"]
  /\ UNCHANGED <<seqVars, tasks>>

NextPar ==
  \E w \in Workers :
    \/ WTopicCreate(w)
    \/ WTopicLookup(w)
    \/ WSubtopicCreate(w)
    \/ WSubtopicLookup(w)
    \/ WSend(w)

SpecPar == InitPar /\ [][NextPar]_vars

(***************************************************************************)
(* Properties of the parallel fan-out.                                     *)
(***************************************************************************)
AllDone == \A w \in Workers : wk[w].pc = "done"

\* the workers have pairwise different subtopics
DistinctUnits ==
  \A v, w \in Workers :
     (tasks[v].topic = tasks[w].topic /\ tasks[v].sub = tasks[w].sub) => v = w

\* the store with every subtopic_id replaced by the names it stands for
SubtopicNames(d, id) ==
  LET u == CHOOSE x \in d.subtopics : x.subtopic_id = id
      t == CHOOSE x \in d.topics : x.topic_id = u.topic_id
  IN <<t.topic_name, u.subtopic_name>>

ByName(d) ==
  [content |-> {[r EXCEPT !.subtopic_id = SubtopicNames(d, r.subtopic_id)] : r \in d.content},
   questions |-> {[r EXCEPT !.subtopic_id = SubtopicNames(d, r.subtopic_id)] : r \in d.questions}]

\* the rows worker w sends, with the names in place of the subtopic_id
RowsOf(w) ==
  LET bs == Batches(flow, FileOf(flow, tasks[w].file),
                    <<tasks[w].topic, tasks[w].sub>>, tasks[w].sub)
  IN {bs[i][j] : <<i, j>> \in
        {x \in (1..Len(bs)) \X (1..BATCH_SIZE) : x[2] <= Len(bs[x[1]])}}

\* the key the schema declares unique in the table of the flow
UniqueKey(r) ==
  IF flow = "content" THEN <<r.subtopic_id, r.difficulty>> ELSE <<r.question_hash>>

KeysOf(w) == {UniqueKey(r) : r \in RowsOf(w)}

NoSharedKeys == \A v, w \in Workers : v # w => KeysOf(v) \cap KeysOf(w) = {}

\* the store after the units were processed one by one in the order f
Sequentially(f) == ProcessUnits(EmptyDb, flow, [i \in Workers |-> tasks[f[i]]], 1)

Resolved(w) == wk[w].pc \in {"sub_create", "sub_lookup", "send", "done"}

\* C8: however the create and lookup steps of concurrent callers of
\* get_or_create_topic with one name (of get_or_create_subtopic with one pair)
\* interleave, the store holds exactly one row for that key, no caller fails
\* and the callers return the same id.
C8_ConcurrentGetOrCreate ==
  /\ \A w \in Workers : wk[w].pc # "failed"
  /\ \A w \in Workers : wk[w].pc # "topic_create" =>
        Cardinality({r \in db.topics : r.topic_name = tasks[w].topic}) = 1
  /\ \A w \in Workers : wk[w].pc \in {"sub_lookup", "send", "done"} =>
        Cardinality({r \in db.subtopics : r.topic_id = wk[w].topic_id
                                          /\ r.subtopic_name = tasks[w].sub}) = 1
  /\ \A v, w \in Workers :
        (tasks[v].topic = tasks[w].topic /\ Resolved(v) /\ Resolved(w)) =>
           wk[v].topic_id = wk[w].topic_id
  /\ \A v, w \in Workers :
        (tasks[v] = tasks[w] /\ wk[v].pc \in {"send", "done"} /\ wk[w].pc \in {"send", "done"}) =>
           wk[v].subtopic_id = wk[w].subtopic_id

\* two callers with the same topic and the same subtopic have both returned
C8_Witness ==
  /\ tasks[1] = tasks[2]
  /\ wk[1].pc \in {"send", "done"} /\ wk[2].pc \in {"send", "done"}
  /\ wk[1].subtopic_id = wk[2].subtopic_id
  /\ Cardinality(db.subtopics) = 1

\* C9: when workers ingest different subtopics concurrently, the content and
\* questions tables end the same for every interleaving of the requests, and
\* equal to what processing the subtopics one by one, in any order, leaves;
\* also when the subtopics have a question_hash in common.
C9_WritersCommute ==
  (AllDone /\ DistinctUnits) =>
     \A f \in Permutations(Workers) : ByName(db) = ByName(Sequentially(f))

\* C9 as amended: the tables end the same for every interleaving and order
\* when no two of the subtopics yield a row with the same conflict key; in any
\* case every stored row is a row that one of the workers sent, and of the rows
\* sent under one unique key exactly one is stored.
C9_WritersCommuteAmended ==
  (AllDone /\ DistinctUnits) =>
     /\ NoSharedKeys =>
          \A f \in Permutations(Workers) : ByName(db) = ByName(Sequentially(f))
     /\ ByName(db)[TableOf(flow)] \subseteq UNION {RowsOf(w) : w \in Workers}
     /\ \A w \in Workers : \A k \in KeysOf(w) :
          Cardinality({r \in ByName(db)[TableOf(flow)] : UniqueKey(r) = k}) = 1

\* two workers with a question_hash in common are done, and the store is not
\* what processing worker 1's subtopic, then worker 2's, leaves
C9_Witness ==
  /\ AllDone /\ DistinctUnits
  /\ flow = "questions"
  /\ ~NoSharedKeys
  /\ ByName(db) # ByName(ProcessUnits(EmptyDb, flow, tasks, 1))

(***************************************************************************)
(* hash_content on its own: it is applied to two values drawn from a set   *)
(* of nested structures, some equal up to the order of their keys, some    *)
(* different in one leaf.                                                  *)
(***************************************************************************)
Nested == Map(<<KV("a", BlockA), KV("b", List(<<Str("x"), Q1>>)), KV("meta", Null)>>)

\* Nested with the keys of the mapping and of the mappings inside it in
\* another order
NestedPermuted == Map(<<KV("meta", Null), KV("b", List(<<Str("x"), Q1p>>)), KV("a", BlockB)>>)

\* Nested with another value in one leaf, two levels down
NestedOtherLeaf ==
  Map(<<KV("a", BlockA), KV("b", List(<<Str("x"), Q2>>)), KV("meta", Null)>>)

HashInputs ==
  {Nested, NestedPermuted, NestedOtherLeaf, Q1, Q1p, Q2, BlockA, BlockB, BlockC,
   Null, Str("null"), Str(""), Str("a"), List(<<>>), Map(<<>>), List(<<Str("a")>>),
   List(<<Str("a"), Str("b")>>), List(<<Str("b"), Str("a")>>),
   Map(<<KV("a", Str("b"))>>), Map(<<KV("b", Str("a"))>>),
   Map(<<KV("a", Null)>>), Map(<<KV("a", Str("null"))>>)}

InitHash ==
  /\ fp \in {[x |-> a, y |-> b, digests |-> <<>>] : a \in HashInputs, b \in HashInputs}
  /\ flow = "content"
  /\ corpus = <<>>
  /\ tasks = <<>> /\ wk = <<>>
  /\ db = EmptyDb
  /\ run = 1
  /\ pc = "hash"
  /\ ti = 0 /\ si = 0
  /\ topic_id = 0 /\ subtopic_id = 0 /\ batch_rows = <<>>
  /\ li = 1 /\ qi = 0
  /\ final = FALSE
  /\ tries = MAX_RETRIES
  /\ log = {}
  /\ crash = ""
  /\ call = NoCall
  /\ hist = NewHist
  /\ snapshot = EmptyDb
  /\ clean = TRUE
  /\ lastUp = {}
  /\ edits = 0
  /\ un = <<>>

\* hash_content(x) and hash_content(y)
Fingerprint ==
  /\ pc = "hash"
  /\ fp.digests = <<>>
  /\ fp' = [fp EXCEPT !.digests = <<hash_content(fp.x), hash_content(fp.y)>>]
  /\ UNCHANGED <<flow, corpus, run, db, pc, ti, si, topic_id, subtopic_id, batch_rows,
                 li, qi, final, tries, log, crash, call, hist, snapshot, clean, lastUp,
                 tasks, wk, edits, un>>

NextHash == Fingerprint

SpecHash == InitHash /\ [][NextHash]_vars

RECURSIVE SameValue(_, _)

\* a and b are equal as nested structures: equal scalars, sequences equal
\* element by element, mappings with the same keys and equal values under each
SameValue(a, b) ==
  /\ a.tag = b.tag
  /\ CASE a.tag = "null" -> TRUE
       [] a.tag = "str" -> a.s = b.s
       [] a.tag = "seq" ->
            /\ Len(a.items) = Len(b.items)
            /\ \A i \in 1..Len(a.items) : SameValue(a.items[i], b.items[i])
       [] OTHER ->
            /\ Len(a.items) = Len(b.items)
            /\ \A i \in 1..Len(a.items) : \E j \in 1..Len(b.items) :
                 /\ a.items[i].k = b.items[j].k
                 /\ SameValue(a.items[i].v, b.items[j].v)

\* C20: hash_content gives the same digest for two values that are equal as
\* nested structures, whatever the order of the keys of their mappings at any
\* depth, and the serialization it hashes differs for two values that are not
\* equal, in particular for two that differ in a leaf.
C20_FingerprintDeterminism ==
  fp # <<>> /\ fp.digests # <<>> =>
     /\ SameValue(fp.x, fp.y) =>
          /\ fp.digests[1] = fp.digests[2]
          /\ Dumps(fp.x) = Dumps(fp.y)
     /\ ~SameValue(fp.x, fp.y) =>
          /\ Dumps(fp.x) # Dumps(fp.y)
          /\ fp.digests[1] # fp.digests[2]

\* the two values differ in the order of their keys, at the top and inside,
\* and were given one digest
C20_Witness ==
  /\ fp # <<>>
  /\ fp.x = Nested /\ fp.y = NestedPermuted
  /\ fp.digests # <<>>
  /\ fp.digests[1] = fp.digests[2]

(***************************************************************************)
(* The readers of level files.  process_file of question_by_level.py reads *)
(* a chunks_by_level.yaml and hands the block of each level to the         *)
(* question generator (outside the model: a level's result stands for the  *)
(* block it was generated from); the two ingest() flows read the levels    *)
(* they build rows from.  A text is parsed by a table of the texts of the  *)
(* model.                                                                  *)
(***************************************************************************)
\* a text inside a code fence
Fenced == "<fence>yaml title: T1 <fence>"

\* sanitize_yaml_text: code fences are stripped, a value that holds ':' and
\* is not quoted is put in quotes
sanitize_yaml_text(text) ==
  CASE text = Fenced -> "title: T1"
    [] text = "title: a: b" -> "title: \"a: b\""
    [] OTHER -> text

\* yaml.safe_load of a text: a parsed value, or YAMLError
YamlLoad(text) ==
  CASE text = "title: T1" -> Parsed(Map(<<KV("title", Str("T1"))>>))
    [] text = "title: \"a: b\"" -> Parsed(Map(<<KV("title", Str("a: b"))>>))
    [] text = "questions: text" -> Parsed(Map(<<KV("questions", Str("text"))>>))
    [] text = "title: a: b" -> Unparseable
    [] text = "title: [T1" -> Unparseable
    [] text = Fenced -> Unparseable
    [] text = "" -> Parsed(Null)
    [] OTHER -> Parsed(Str(text))

\* what a reader makes of a file: "levels" with the block of each level it
\* goes on with, "error" (the file is refused and the caller goes on with the
\* next file) or "crash" (an exception that ends the caller)
Unified(kind, levels, err) == [kind |-> kind, levels |-> levels, err |-> err]

LevelNames == {YamlLevels[i] : i \in 1..Len(YamlLevels)}

\* process_file: every exception it raises is caught by main(), which prints
\* the error, saves nothing for the file and goes on
process_file(file) ==
  IF ~file.exists THEN Unified("error", {}, "RuntimeError")
  ELSE IF ~file.parses THEN Unified("error", {}, "YAMLError")
  ELSE IF ~IsDict(file.data) THEN Unified("error", {}, "RuntimeError")
  ELSE IF ~HasKey(file.data, "by_level") /\ \A lv \in LevelNames : ~HasKey(file.data, lv)
       THEN Unified("error", {}, "RuntimeError")
  ELSE LET by_level == IF HasKey(file.data, "by_level")
                       THEN Item(file.data, "by_level") ELSE file.data
           present == {lv \in LevelNames : InValue(by_level, lv)}
           level_data(lv) ==
             LET level_content == Item(by_level, lv) IN
               IF level_content.tag = "str"
               THEN YamlLoad(sanitize_yaml_text(level_content.s))
               ELSE Parsed(level_content)
       IN IF InRaises(by_level) THEN Unified("error", {}, "TypeError")
          ELSE IF present # {} /\ ~IsDict(by_level) THEN Unified("error", {}, "TypeError")
          ELSE IF \E lv \in present : ~level_data(lv).parses
               THEN Unified("error", {}, "YAMLError")
          ELSE Unified("levels",
                 {[level |-> lv, block |-> level_data(lv).data] :
                    lv \in {x \in present : IsDict(level_data(x).data)}}, "")

\* ingest() of flow fl up to the blocks its loop over DIFFICULTY_MAP reads
IngestLevels(fl, file) ==
  LET o == LoadFile(fl, file, "") IN
    IF o.kind = "skip" THEN Unified("error", {}, "logged")
    ELSE IF o.kind = "crash" THEN Unified("crash", {}, o.err)
    ELSE LET levels == IF fl = "content" THEN file.data ELSE Item(file.data, "by_level")
             present == {lv \in LevelNames : InValue(levels, lv)}
         IN IF InRaises(levels) THEN Unified("crash", {}, "TypeError")
            ELSE IF present # {} /\ ~IsDict(levels) THEN Unified("crash", {}, "TypeError")
            ELSE IF \E lv \in present : ~IsDict(Item(levels, lv))
                 THEN Unified("crash", {}, "AttributeError")
            ELSE Unified("levels",
                   {[level |-> lv, block |-> Item(levels, lv)] : lv \in present}, "")

(***************************************************************************)
(* The readers applied to one file each.                                   *)
(***************************************************************************)
Block1 == Map(<<KV("title", Str("T1")), KV("summary", Str("S1"))>>)

Block2 == Map(<<KV("title", Str("T2"))>>)

\* a level file with difficulty names as top-level keys
TopLevel(b, a) == Map(<<KV("beginner", b), KV("advanced", a)>>)

\* a level file with difficulty names under by_level
Wrapped(b, a) == Map(<<KV("by_level", TopLevel(b, a))>>)

UnifyInputs ==
  {Missing, Unparseable,
   Parsed(Str("text")), Parsed(Null), Parsed(List(<<Str("beginner")>>)),
   Parsed(Map(<<KV("meta", Str("x"))>>)),
   Parsed(TopLevel(Block1, Block2)),
   Parsed(Wrapped(Block1, Block2)),
   Parsed(Wrapped(Questions(<<QN(1)>>), Questions(<<QN(2)>>))),
   Parsed(Map(<<KV("by_level", Str("text"))>>)),
   Parsed(Map(<<KV("by_level", List(<<Str("x")>>))>>)),
   Parsed(Map(<<KV("by_level", Null)>>)),
   Parsed(Map(<<KV("by_level", Map(<<KV("meta", Str("x"))>>))>>)),
   Parsed(TopLevel(Str("title: T1"), Block2)),
   Parsed(Wrapped(Str("title: T1"), Block2)),
   Parsed(Wrapped(Str("questions: text"), Questions(<<QN(2)>>))),
   Parsed(Wrapped(Str("title: [T1"), Block2)),
   Parsed(Wrapped(Str("text"), Block2)),
   Parsed(Wrapped(Str("title: a: b"), Block2)),
   Parsed(Wrapped(Str(Fenced), Block2)),
   Parsed(Wrapped(Str(""), Block2)),
   Parsed(Wrapped(Null, Block2)),
   Parsed(Wrapped(List(<<Str("x")>>), Block2))}

Readers == {"process_file", "content", "questions"}

Pending == Unified("pending", {}, "")

InitUnify ==
  /\ un \in {[file |-> f, out |-> [r \in Readers |-> Pending]] : f \in UnifyInputs}
  /\ fp = <<>>
  /\ flow = "content"
  /\ corpus = <<>>
  /\ tasks = <<>> /\ wk = <<>>
  /\ db = EmptyDb
  /\ run = 1
  /\ pc = "unify"
  /\ ti = 0 /\ si = 0
  /\ topic_id = 0 /\ subtopic_id = 0 /\ batch_rows = <<>>
  /\ li = 1 /\ qi = 0
  /\ final = FALSE
  /\ tries = MAX_RETRIES
  /\ log = {}
  /\ crash = ""
  /\ call = NoCall
  /\ hist = NewHist
  /\ snapshot = EmptyDb
  /\ clean = TRUE
  /\ lastUp = {}
  /\ edits = 0

\* question_by_level.main: process_file on the file
ProcessFile ==
  /\ pc = "unify"
  /\ un.out["process_file"] = Pending
  /\ un' = [un EXCEPT !.out["process_file"] = process_file(un.file)]
  /\ UNCHANGED <<flow, corpus, run, db, pc, ti, si, topic_id, subtopic_id, batch_rows,
                 li, qi, final, tries, log, crash, call, hist, snapshot, clean, lastUp,
                 tasks, wk, edits, fp>>

\* content_ingestion.ingest on the file
ContentReads ==
  /\ pc = "unify"
  /\ un.out["content"] = Pending
  /\ un' = [un EXCEPT !.out["content"] = IngestLevels("content", un.file)]
  /\ UNCHANGED <<flow, corpus, run, db, pc, ti, si, topic_id, subtopic_id, batch_rows,
                 li, qi, final, tries, log, crash, call, hist, snapshot, clean, lastUp,
                 tasks, wk, edits, fp>>

\* question_ingestion.ingest on the file
QuestionsReads ==
  /\ pc = "unify"
  /\ un.out["questions"] = Pending
  /\ un' = [un EXCEPT !.out["questions"] = IngestLevels("questions", un.file)]
  /\ UNCHANGED <<flow, corpus, run, db, pc, ti, si, topic_id, subtopic_id, batch_rows,
                 li, qi, final, tries, log, crash, call, hist, snapshot, clean, lastUp,
                 tasks, wk, edits, fp>>

NextUnify == ProcessFile \/ ContentReads \/ QuestionsReads

SpecUnify == InitUnify /\ [][NextUnify]_vars

\* the blocks under the difficulty names of a mapping
Recognized(m) ==
  {[level |-> lv, block |-> Item(m, lv)] : lv \in {x \in LevelNames : HasKey(m, x)}}

\* the shape of a parsed value: difficulty names under by_level, difficulty
\* names as top-level keys, or neither
SourceShape(data) ==
  IF ~IsDict(data) THEN "other"
  ELSE IF HasKey(data, "by_level")
       THEN IF IsDict(Item(data, "by_level")) THEN "wrapper" ELSE "other"
  ELSE IF \E lv \in LevelNames : HasKey(data, lv) THEN "top" ELSE "other"

LevelsOfShape(data) ==
  IF SourceShape(data) = "wrapper" THEN Recognized(Item(data, "by_level"))
  ELSE Recognized(data)

Done(r) == un.out[r].kind # "pending" /\ un.file.exists /\ un.file.parses

\* C21: every reader of a parsed level file takes both shapes (difficulty
\* names as top-level keys, or under by_level) and goes on with the block of
\* each difficulty present, and refuses every other parsed value with an error
\* (here for the files whose blocks are mappings)
C21_UnifyShapes ==
  \A r \in Readers :
    Done(r) =>
      IF SourceShape(un.file.data) = "other"
      THEN un.out[r].kind = "error"
      ELSE (\A x \in LevelsOfShape(un.file.data) : IsDict(x.block)) =>
             /\ un.out[r].kind = "levels"
             /\ un.out[r].levels = LevelsOfShape(un.file.data)

\* a block after the extra parsing step of a string block
Unnested(block) ==
  IF block.tag = "str" THEN YamlLoad(sanitize_yaml_text(block.s)) ELSE Parsed(block)

\* the levels of a file whose block, parsed one extra step when it is a
\* string, is a mapping
UsableLevels(data) ==
  {[level |-> x.level, block |-> Unnested(x.block).data] :
     x \in {y \in LevelsOfShape(data) :
              Unnested(y.block).parses /\ IsDict(Unnested(y.block).data)}}

\* C22: for a file of one of the two shapes with a string block, every reader
\* parses the string one extra step; a block that does not parse, or not to a
\* mapping, is skipped alone: the reader goes on with exactly the other levels
\* and the file is not failed
C22_NestedBlock ==
  \A r \in Readers :
    (/\ Done(r)
     /\ SourceShape(un.file.data) # "other"
     /\ \E x \in LevelsOfShape(un.file.data) : x.block.tag = "str")
    => /\ un.out[r].kind = "levels"
       /\ un.out[r].levels = UsableLevels(un.file.data)

====
